---- MODULE Spec2Model ----
(***************************************************************************)
(* A model of musicman: the Library catalog (library.py), its playlists    *)
(* (playlists.py), the flat-dir export (exports.py, io.py) and the `rm`    *)
(* command of the command line (cli.py).                                   *)
(*                                                                         *)
(* Python strings are sequences of one-character strings, so that the      *)
(* character-level functions (gen_filename, isoformat, ...) are computed   *)
(* as the code computes them.                                              *)
(***************************************************************************)
EXTENDS Integers, Sequences, FiniteSets, TLC

VARIABLES
    cls,        \* class-level attributes of Library (shared by all instances)
    lib,        \* per Library instance: the attributes set on the instance
    heap,       \* Song objects, by object id
    music,      \* the managed music directory: filename -> file content
    srcs,       \* source media files outside the library: path -> content
    configFile, \* the catalog file at get_config_path(): <<>> or <<file>>
    tmpFile,    \* the file made by tempfile.mkstemp(): <<>> or <<file>>
    tmpSameFs,  \* whether the temp directory is on the library's filesystem
    dirs,       \* the export target directories
    pc,         \* where the process is
    last        \* the last call: its name, arguments, outcome and pre-state

vars == <<cls, lib, heap, music, srcs, configFile, tmpFile, tmpSameFs, dirs, pc, last>>

(***************************************************************************)
(* Bounds of the model.                                                    *)
(***************************************************************************)
NumChunks == 2      \* write() calls it takes to write one file
MaxOps == 2         \* calls made by one process

(***************************************************************************)
(* Strings.                                                                *)
(***************************************************************************)
RECURSIVE rfind(_, _, _)
\* str.rfind(c) within s[1..n], 1-based; 0 when absent (Python: -1)
rfind(s, c, n) ==
    IF n = 0 THEN 0
    ELSE IF s[n] = c THEN n
    ELSE rfind(s, c, n - 1)

\* s[a..b], empty when a > b
Slice(s, a, b) == IF a > b THEN <<>> ELSE SubSeq(s, a, b)

RECURSIVE Filter(_, _)
\* "".join([c for c in s if c in keep])
Filter(s, keep) ==
    IF s = <<>> THEN <<>>
    ELSE (IF Head(s) \in keep THEN <<Head(s)>> ELSE <<>>) \o Filter(Tail(s), keep)

\* str.replace(a, b) for one-character a and b
Replace(s, a, b) == [k \in 1..Len(s) |-> IF s[k] = a THEN b ELSE s[k]]

Letters == {"a", "b", "c", "d", "m", "p", "A", "B"}
Digits == {"1", "3"}

\* re.match(r'[a-zA-Z0-9\-_]', c)
FilenameChars == Letters \cup Digits \cup {"-", "_"}

\* os.path.basename: what follows the last "/"
basename(path) == Slice(path, rfind(path, "/", Len(path)) + 1, Len(path))

\* os.path.splitext: the extension starts at the last dot, unless only dots
\* precede it in the name (a leading-dot name has no extension)
splitext(p) ==
    LET sepIndex == rfind(p, "/", Len(p))
        dotIndex == rfind(p, ".", Len(p))
    IN  IF dotIndex > sepIndex
           /\ \E k \in (sepIndex + 1)..(dotIndex - 1) : p[k] # "."
        THEN <<Slice(p, 1, dotIndex - 1), Slice(p, dotIndex, Len(p))>>
        ELSE <<p, <<>>>>

gen_filename(path) ==
    LET parts == splitext(basename(path))
        name == Filter(Replace(parts[1], " ", "-"), FilenameChars)
    IN  name \o parts[2]

(***************************************************************************)
(* Python values.                                                          *)
(***************************************************************************)
\* a dict keeps insertion order: a sequence of [k, v] items with distinct keys
EmptyDict == <<>>
Keys(d) == {d[n].k : n \in 1..Len(d)}
Has(d, key) == \E n \in 1..Len(d) : d[n].k = key
Get(d, key) == d[CHOOSE n \in 1..Len(d) : d[n].k = key].v
\* d[key] = val: a present key keeps its place, a new key goes last
Put(d, key, val) ==
    IF Has(d, key)
    THEN [n \in 1..Len(d) |-> IF d[n].k = key THEN [k |-> key, v |-> val] ELSE d[n]]
    ELSE Append(d, [k |-> key, v |-> val])
Values(d) == {d[n].v : n \in 1..Len(d)}
Item(key, val) == [k |-> key, v |-> val]

\* str, float, list of str and None, as metadata and rule values
Str(s) == [t |-> "str", s |-> s, n |-> 0, l |-> <<>>]
Num(n) == [t |-> "num", s |-> <<>>, n |-> n, l |-> <<>>]
List(l) == [t |-> "list", s |-> <<>>, n |-> 0, l |-> l]
None == [t |-> "none", s |-> <<>>, n |-> 0, l |-> <<>>]

\* datetime.datetime: whole seconds and microseconds
Date(sec, usec) == [sec |-> sec, usec |-> usec]

\* datetime.isoformat(): the fraction is written only when it is not zero
isoformat(d) ==
    IF d.usec = 0 THEN <<"T", d.sec>> ELSE <<"T", d.sec, ".", d.usec>>

\* dateutil.parser.parse of an ISO-8601 string
parse(s) ==
    IF Len(s) = 2 THEN Date(s[2], 0) ELSE Date(s[2], s[4])

(***************************************************************************)
(* library.py: Song and Library.                                           *)
(***************************************************************************)
Song(filename, date_added, metadata) ==
    [filename |-> filename, date_added |-> date_added, metadata |-> metadata]

Instances == {1, 2}

DefaultExtensions == <<"mp3", "mp4", "wav", "m4a", "flac">>

\* class Library: songs = {}, exports = {}, playlists = {}, extensions = [...]
LibraryClass ==
    [songs |-> EmptyDict, exports |-> EmptyDict, playlists |-> EmptyDict,
     extensions |-> DefaultExtensions]

\* Library(path): __init__ sets no container on the instance
NewLibrary ==
    [own |-> {}, songs |-> EmptyDict, exports |-> EmptyDict,
     playlists |-> EmptyDict, extensions |-> <<>>]

\* getattr(self, a): the instance's attribute, else the class's
Attr(i, a) == IF a \in lib[i].own THEN lib[i][a] ELSE cls[a]

\* the Song objects some container still refers to
SimpleRefs(plists) ==
    UNION {IF plists[n].v.type = "simple"
           THEN {plists[n].v.songs[m] : m \in 1..Len(plists[n].v.songs)}
           ELSE {} : n \in 1..Len(plists)}
Reachable(c, l) ==
    Values(c.songs) \cup SimpleRefs(c.playlists)
    \cup UNION {Values(l[i].songs) \cup SimpleRefs(l[i].playlists) : i \in Instances}

\* a new object takes the smallest id no live object has
FreshId(h) == CHOOSE n \in 1..(Cardinality(DOMAIN h) + 1) : n \notin DOMAIN h

Collect(h, c, l) == [o \in (DOMAIN h \cap Reachable(c, l)) |-> h[o]]

\* the state a call may change, kept to state what the call left alone
Snapshot ==
    [cls |-> cls, lib |-> lib, heap |-> heap, music |-> music, srcs |-> srcs,
     configFile |-> configFile, dirs |-> dirs]

\* n counts the calls that change the catalog or the disk
Call(op, arg, res) ==
    [op |-> op, arg |-> arg, res |-> res, pre |-> Snapshot,
     n |-> IF op = "load" THEN last.n ELSE last.n + 1]

\* a file: what it was written from and how many chunks of it are there
File(data, done) == [data |-> data, done |-> done]
Whole(data) == File(data, NumChunks)

(***************************************************************************)
(* io.py: get_tags.                                                        *)
(***************************************************************************)
\* the metadata keys, as Python strings
s_artist == <<"a", "r", "t", "i", "s", "t">>
s_title == <<"t", "i", "t", "l", "e">>
s_album == <<"a", "l", "b", "u", "m">>
s_tracknumber == <<"t", "r", "a", "c", "k", "n", "u", "m", "b", "e", "r">>
s_date == <<"d", "a", "t", "e">>
s_genre == <<"g", "e", "n", "r", "e">>
s_composer == <<"c", "o", "m", "p", "o", "s", "e", "r">>
s_length == <<"l", "e", "n", "g", "t", "h">>
s_performer == <<"p", "e", "r", "f", "o", "r", "m", "e", "r">>
s_albumartist == s_album \o s_artist
s_track == <<"t", "r", "a", "c", "k">>
s_name == <<"n", "a", "m", "e">>
s_style == <<"s", "t", "y", "l", "e">>

TagKeys == <<s_artist, s_title, s_album, s_tracknumber, s_date, s_genre, s_composer>>

\* tag_names; ("composer") is a str and no tuple, so the names tried for
\* composer are its characters
tag_names(key) ==
    CASE key = s_artist -> <<s_artist, s_performer, s_albumartist, s_composer>>
      [] key = s_title -> <<s_title, s_track, s_name>>
      [] key = s_album -> <<s_album>>
      [] key = s_tracknumber -> <<s_tracknumber>>
      [] key = s_date -> <<s_date>>
      [] key = s_genre -> <<s_genre, s_style>>
      [] key = s_composer -> [n \in 1..Len(s_composer) |-> <<s_composer[n]>>]

RECURSIVE FirstIn(_, _)
\* the first name of names that attrs has, as <<name>>, or <<>>
FirstIn(names, attrs) ==
    IF names = <<>> THEN <<>>
    ELSE IF Has(attrs, Head(names)) THEN <<Head(names)>>
    ELSE FirstIn(Tail(names), attrs)

RECURSIVE NormalizeTags(_, _)
NormalizeTags(keys, attrs) ==
    IF keys = <<>> THEN EmptyDict
    ELSE LET found == FirstIn(tag_names(Head(keys)), attrs)
             rest == NormalizeTags(Tail(keys), attrs)
         IN  IF found = <<>> THEN rest
             ELSE <<[k |-> Head(keys), v |-> Get(attrs, found[1])]>> \o rest

\* get_tags, given what the helper program printed
get_tags(attrs) == NormalizeTags(TagKeys, attrs)

\* what lib/tag.py prints for a media file with tags: a performer and no
\* artist, a title, a composer and the length in seconds
TagOutput ==
    <<[k |-> s_performer, v |-> Str(<<"b">>)], [k |-> s_title, v |-> Str(<<"a">>)],
      [k |-> s_composer, v |-> Str(<<"c">>)], [k |-> s_length, v |-> Num(3)]>>

\* the helper program: its output, a non-zero exit, or a failure to run it
TagOutcomes ==
    {[st |-> "ok", attrs |-> TagOutput],
     [st |-> "CalledProcessError", attrs |-> EmptyDict],
     [st |-> "OSError", attrs |-> EmptyDict]}

(***************************************************************************)
(* playlists.py: SimplePlaylist, AutoPlaylist and their serialized forms.  *)
(***************************************************************************)
Min(S) == CHOOSE x \in S : \A y \in S : x <= y

Ok(r) == r.res = "ok"

\* the outcome of a comprehension over results: the elements, or the first
\* exception raised
All(rs) ==
    LET bad == {n \in 1..Len(rs) : ~Ok(rs[n])}
    IN  IF bad = {} THEN [res |-> "ok", val |-> [n \in 1..Len(rs) |-> rs[n].val]]
        ELSE [res |-> rs[Min(bad)].res, val |-> <<>>]

Raise(exc) == [res |-> exc, val |-> <<>>]
Return(val) == [res |-> "ok", val |-> val]

s_and == <<"a", "n", "d">>
s_or == <<"o", "r">>

CONDITION_IS == 1
CONDITION_IS_NOT == 2
CONDITION_CONTAINS == 3
CONDITION_DOES_NOT_CONTAIN == 4
CONDITION_IN == 5
CONDITION_NOT_IN == 6
CONDITION_CONTAINS_ALL == 7
CONDITION_CONTAINS_ANY == 8
CONDITION_CONTAINS_NONE == 9

Phrases ==
    {"is", "is not", "contains", "does not contain", "in", "not in",
     "contains all", "contains any", "contains none"}

CONDITION_MAPPING(phrase) ==
    CASE phrase = "is" -> CONDITION_IS
      [] phrase = "is not" -> CONDITION_IS_NOT
      [] phrase = "contains" -> CONDITION_CONTAINS
      [] phrase = "does not contain" -> CONDITION_DOES_NOT_CONTAIN
      [] phrase = "in" -> CONDITION_IN
      [] phrase = "not in" -> CONDITION_NOT_IN
      [] phrase = "contains all" -> CONDITION_CONTAINS_ALL
      [] phrase = "contains any" -> CONDITION_CONTAINS_ANY
      [] phrase = "contains none" -> CONDITION_CONTAINS_NONE

CONDITION_MAPPING_REVERSE(check) ==
    CHOOSE phrase \in Phrases : CONDITION_MAPPING(phrase) = check

\* the keys of the two tables of comparison functions
CONDITIONS_SINGLE ==
    {CONDITION_IS, CONDITION_IS_NOT, CONDITION_CONTAINS, CONDITION_DOES_NOT_CONTAIN}
CONDITIONS_MULTIPLE ==
    {CONDITION_IN, CONDITION_NOT_IN, CONDITION_CONTAINS_ALL, CONDITION_CONTAINS_ANY,
     CONDITION_CONTAINS_NONE}

\* condition["type"] in ("and", "or"): a leaf's type is one of the integer
\* constants, and only a combinator has "conditions"
IsCombinator(condition) == "conditions" \in DOMAIN condition

\* class attributes: SimplePlaylist.songs, AutoPlaylist.sort and .conditions
PlaylistClass(type) ==
    IF type = "simple"
    THEN [songs |-> <<>>, sort |-> <<>>, conditions |-> <<>>]
    ELSE [songs |-> <<>>, sort |-> <<s_artist, s_title>>, conditions |-> <<>>]

\* SimplePlaylist() / AutoPlaylist(): no attribute is set on the instance
NewPlaylist(type) ==
    [type |-> type, own |-> {}, songs |-> <<>>, sort |-> <<>>, conditions |-> <<>>]

PAttr(plist, a) == IF a \in plist.own THEN plist[a] ELSE PlaylistClass(plist.type)[a]

get_conditions(plist) == [type |-> s_and, conditions |-> PAttr(plist, "conditions")]

RECURSIVE serialize_condition(_)
serialize_condition(condition) ==
    IF IsCombinator(condition)
    THEN <<condition.type,
           [n \in 1..Len(condition.conditions) |->
                serialize_condition(condition.conditions[n])]>>
    ELSE <<condition.attr, CONDITION_MAPPING_REVERSE(condition.type), condition.value>>

\* a serialization that keeps the implied top-level `and` node in the file
serialize_conditions_keeping_top(plist) ==
    <<serialize_condition(get_conditions(plist))>>

\* the implicit top-level "and" is not serialized
serialize_conditions(plist) == serialize_condition(get_conditions(plist))[2]

RECURSIVE unserialize_condition(_)
unserialize_condition(condition) ==
    IF Len(condition) = 2
    THEN IF condition[1] \in {s_and, s_or}
         THEN LET kids == All([n \in 1..Len(condition[2]) |->
                                  unserialize_condition(condition[2][n])])
              IN  IF Ok(kids)
                  THEN Return([type |-> condition[1], conditions |-> kids.val])
                  ELSE kids
         ELSE Raise("Exception")
    ELSE IF Len(condition) = 3
    THEN IF condition[2] \notin Phrases THEN Raise("KeyError")
         ELSE LET check == CONDITION_MAPPING(condition[2])
                  multiple == condition[3].t = "list"
              IN  IF check \notin (IF multiple THEN CONDITIONS_MULTIPLE
                                   ELSE CONDITIONS_SINGLE)
                  THEN Raise("KeyError")
                  ELSE Return([type |-> check, attr |-> condition[1],
                               value |-> condition[3],
                               func |-> IF multiple THEN "CONDITIONS_MULTIPLE"
                                        ELSE "CONDITIONS_SINGLE"])
    ELSE Raise("Exception")

\* Playlist.serialize, by type; h is the heap of Song objects
serialize_playlist(plist, h) ==
    IF plist.type = "simple"
    THEN [type |-> "simple",
          songs |-> [n \in 1..Len(PAttr(plist, "songs")) |->
                        h[PAttr(plist, "songs")[n]].filename]]
    ELSE [type |-> "auto", conditions |-> serialize_conditions(plist),
          sort |-> PAttr(plist, "sort")]

\* SimplePlaylist.unserialize: library.get_song(fname) for each name
\* a resolution that drops the filenames that are not keys of songs
SimplePlaylist_unserialize_skipping(config, songs) ==
    IF "songs" \notin DOMAIN config THEN Raise("KeyError")
    ELSE LET known == Filter(config.songs, Keys(songs))
         IN  Return([NewPlaylist("simple") EXCEPT
                         !.own = {"songs"},
                         !.songs = [n \in 1..Len(known) |-> Get(songs, known[n])]])

SimplePlaylist_unserialize(config, songs) ==
    IF "songs" \notin DOMAIN config THEN Raise("KeyError")
    ELSE LET found == All([n \in 1..Len(config.songs) |->
                              IF Has(songs, config.songs[n])
                              THEN Return(Get(songs, config.songs[n]))
                              ELSE Raise("KeyError")])
         IN  IF Ok(found)
             THEN Return([NewPlaylist("simple") EXCEPT
                              !.own = {"songs"}, !.songs = found.val])
             ELSE found

AutoPlaylist_unserialize(config) ==
    IF "conditions" \notin DOMAIN config THEN Raise("KeyError")
    ELSE LET top == unserialize_condition(<<s_and, config.conditions>>)
         IN  IF Ok(top)
             THEN Return([NewPlaylist("auto") EXCEPT
                              !.own = {"sort", "conditions"},
                              !.sort = IF "sort" \in DOMAIN config THEN config.sort
                                       ELSE PlaylistClass("auto").sort,
                              !.conditions = top.val.conditions])
             ELSE top

PLAYLIST_MAPPING == {"simple", "auto"}

(***************************************************************************)
(* Python strings as AutoPlaylist compares them.                           *)
(***************************************************************************)
\* the characters of the model in code-point order
CodePoints ==
    <<" ", "!", "(", ")", "-", ".", "/", "1", "3", "A", "B", "_",
      "a", "b", "c", "d", "m", "p">>

ord(c) == CHOOSE n \in 1..Len(CodePoints) : CodePoints[n] = c

\* str.lower()
lower(s) ==
    [n \in 1..Len(s) |-> CASE s[n] = "A" -> "a" [] s[n] = "B" -> "b" [] OTHER -> s[n]]

\* str.strip(): leading and trailing whitespace removed
strip(s) ==
    LET inked == {n \in 1..Len(s) : s[n] # " "}
    IN  IF inked = {} THEN <<>>
        ELSE SubSeq(s, Min(inked), CHOOSE n \in inked : \A m \in inked : m <= n)

\* sub in s, for two strings
Substring(sub, s) ==
    \E n \in 0..(Len(s) - Len(sub)) : SubSeq(s, n + 1, n + Len(sub)) = sub

\* a < b, for two strings
RECURSIVE StrLess(_, _)
StrLess(a, b) ==
    IF b = <<>> THEN FALSE
    ELSE IF a = <<>> THEN TRUE
    ELSE IF Head(a) = Head(b) THEN StrLess(Tail(a), Tail(b))
    ELSE ord(Head(a)) < ord(Head(b))

\* bool(v)
Truthy(v) ==
    CASE v.t = "str" -> v.s # <<>>
      [] v.t = "num" -> v.n # 0
      [] v.t = "list" -> v.l # <<>>
      [] OTHER -> FALSE

(***************************************************************************)
(* library.py: Song.get_attr; playlists.py: AutoPlaylist.matches.          *)
(***************************************************************************)
s_filename == <<"f", "i", "l", "e", "n", "a", "m", "e">>
s_date_added == <<"d", "a", "t", "e", "_", "a", "d", "d", "e", "d">>

ALLOWED_ATTRS == {s_filename, s_date_added}

\* Song.get_attr: self.getattr is not an attribute of Song
get_attr(song, attr) ==
    IF attr \in ALLOWED_ATTRS THEN Raise("AttributeError")
    ELSE IF Has(song.metadata, attr) THEN Return(Get(song.metadata, attr))
    ELSE Return(None)

\* clean = lambda s: s.lower().strip() if s else None
clean(v) ==
    IF ~Truthy(v) THEN Return(None)
    ELSE IF v.t = "str" THEN Return(Str(strip(lower(v.s))))
    ELSE Raise("AttributeError")

\* rule in cur, for a cleaned value cur
Contains(cur, rule) ==
    IF cur.t # "str" \/ rule.t # "str" THEN Raise("TypeError")
    ELSE Return(Substring(rule.s, cur.s))

\* the first r of rule for which `r in cur` raises or equals stop; all() and
\* any() consume the generator up to there
RECURSIVE Scan(_, _, _)
Scan(cur, rule, stop) ==
    IF rule = <<>> THEN Return(~stop)
    ELSE LET r == Contains(cur, Head(rule))
         IN  IF ~Ok(r) THEN r
             ELSE IF r.val = stop THEN Return(stop)
             ELSE Scan(cur, Tail(rule), stop)

Not(r) == IF Ok(r) THEN Return(~r.val) ELSE r

\* CONDITIONS_SINGLE[check](cur, rule), as a truth value
CONDITIONS_SINGLE_func(check, cur, rule) ==
    CASE check = CONDITION_IS -> Return(cur = rule)
      [] check = CONDITION_IS_NOT -> Return(cur # rule)
      [] check = CONDITION_CONTAINS ->
            IF Truthy(cur) THEN Contains(cur, rule) ELSE Return(FALSE)
      [] check = CONDITION_DOES_NOT_CONTAIN ->
            IF Truthy(cur) THEN Return(TRUE) ELSE Not(Contains(cur, rule))

\* CONDITIONS_MULTIPLE[check](cur, rule), rule a list of cleaned values
CONDITIONS_MULTIPLE_func(check, cur, rule) ==
    LET members == {rule[n] : n \in 1..Len(rule)}
        given == IF Truthy(cur) THEN rule ELSE <<>>
    IN  CASE check = CONDITION_IN -> Return(cur \in members)
          [] check = CONDITION_NOT_IN -> Return(cur \notin members)
          [] check = CONDITION_CONTAINS_ALL -> Scan(cur, given, FALSE)
          [] check = CONDITION_CONTAINS_ANY -> Scan(cur, given, TRUE)
          [] check = CONDITION_CONTAINS_NONE -> Not(Scan(cur, given, TRUE))

RECURSIVE matches_condition(_, _)
RECURSIVE matches_each(_, _, _)

\* match(matches_condition(c) for c in conditions): any stops at the first
\* true condition, all at the first false one
matches_each(song, conditions, stop) ==
    IF conditions = <<>> THEN Return(~stop)
    ELSE LET r == matches_condition(song, Head(conditions))
         IN  IF ~Ok(r) THEN r
             ELSE IF r.val = stop THEN Return(stop)
             ELSE matches_each(song, Tail(conditions), stop)

matches_condition(song, condition) ==
    IF IsCombinator(condition)
    THEN matches_each(song, condition.conditions, condition.type = s_or)
    ELSE LET val == get_attr(song, condition.attr)
             cur == IF Ok(val) THEN clean(val.val) ELSE val
             match == condition.value
             cleaned == [n \in 1..Len(match.l) |-> clean(Str(match.l[n])).val]
         IN  IF ~Ok(cur) THEN cur
             ELSE IF match.t = "list"
             THEN CONDITIONS_MULTIPLE_func(condition.type, cur.val, cleaned)
             ELSE CONDITIONS_SINGLE_func(condition.type, cur.val, match)

\* AutoPlaylist.matches
matches(plist, song) == matches_condition(song, get_conditions(plist))

(***************************************************************************)
(* playlists.py: get_songs and get_m3u.                                    *)
(***************************************************************************)
\* a < b for two sort keys of the same type
RECURSIVE ListLess(_, _)
ListLess(a, b) ==
    IF b = <<>> THEN FALSE
    ELSE IF a = <<>> THEN TRUE
    ELSE IF Head(a) = Head(b) THEN ListLess(Tail(a), Tail(b))
    ELSE StrLess(Head(a), Head(b))

KeyLess(a, b) ==
    CASE a.t = "str" -> StrLess(a.s, b.s)
      [] a.t = "num" -> a.n < b.n
      [] OTHER -> ListLess(a.l, b.l)

\* list.sort(key, reverse) on <<song, key>> pairs: stable in both directions
RECURSIVE sort(_, _)
sort(keyed, reverse) ==
    IF keyed = <<>> THEN <<>>
    ELSE LET x == keyed[Len(keyed)]
             sorted == sort(SubSeq(keyed, 1, Len(keyed) - 1), reverse)
             after == {n \in 1..Len(sorted) :
                          IF reverse THEN KeyLess(sorted[n].key, x.key)
                          ELSE KeyLess(x.key, sorted[n].key)}
             pos == IF after = {} THEN Len(sorted) + 1 ELSE Min(after)
         IN  SubSeq(sorted, 1, pos - 1) \o <<x>> \o SubSeq(sorted, pos, Len(sorted))

\* songs.sort(key=lambda song: song.get_attr(field) or "", reverse=reverse);
\* keys of different types cannot be ordered
sort_on(songs, field, h) ==
    LET reverse == field # <<>> /\ Head(field) = "!"
        name == IF reverse THEN Tail(field) ELSE field
        keys == All([n \in 1..Len(songs) |-> get_attr(h[songs[n]], name)])
        keyed == [n \in 1..Len(songs) |->
                     [song |-> songs[n],
                      key |-> IF Truthy(keys.val[n]) THEN keys.val[n] ELSE Str(<<>>)]]
        sorted == sort(keyed, reverse)
    IN  IF ~Ok(keys) THEN keys
        ELSE IF Cardinality({keyed[n].key.t : n \in 1..Len(keyed)}) > 1
        THEN Raise("TypeError")
        ELSE Return([n \in 1..Len(sorted) |-> sorted[n].song])

\* for field in reversed(self.sort): the least significant field first
RECURSIVE sort_fields(_, _, _)
sort_fields(songs, fields, h) ==
    IF fields = <<>> THEN Return(songs)
    ELSE LET r == sort_on(songs, fields[Len(fields)], h)
         IN  IF Ok(r) THEN sort_fields(r.val, SubSeq(fields, 1, Len(fields) - 1), h)
             ELSE r

\* [song for _, song in songs.items() if keep[n]], from the n-th item on
RECURSIVE matching(_, _, _)
matching(songs, keep, n) ==
    IF n > Len(songs) THEN <<>>
    ELSE (IF keep[n] THEN <<songs[n].v>> ELSE <<>>) \o matching(songs, keep, n + 1)

\* Playlist.get_songs, by type; songs is library.songs
get_songs(plist, songs, h) ==
    IF plist.type = "simple" THEN Return(PAttr(plist, "songs"))
    ELSE LET tests == All([n \in 1..Len(songs) |-> matches(plist, h[songs[n].v])])
         IN  IF Ok(tests)
             THEN sort_fields(matching(songs, tests.val, 1), PAttr(plist, "sort"), h)
             ELSE tests

\* the decimal digits of a natural number
RECURSIVE digits(_)
digits(n) ==
    LET d == <<"0", "1", "2", "3", "4", "5", "6", "7", "8", "9">>[(n % 10) + 1]
    IN  IF n < 10 THEN <<d>> ELSE Append(digits(n \div 10), d)

DigitValue(c) == CASE c = "1" -> 1 [] c = "3" -> 3

RECURSIVE decimal(_)
decimal(s) ==
    IF s = <<>> THEN 0
    ELSE 10 * decimal(SubSeq(s, 1, Len(s) - 1)) + DigitValue(s[Len(s)])

\* int(v): a number as it is; a string of digits between optional whitespace,
\* with an optional sign and single underscores between digits
int(v) ==
    LET body == strip(v.s)
        negative == body # <<>> /\ Head(body) = "-"
        figures == IF negative THEN Tail(body) ELSE body
        plain == Filter(figures, Digits)
        wellformed ==
            /\ figures # <<>>
            /\ \A n \in 1..Len(figures) : figures[n] \in Digits \cup {"_"}
            /\ figures[1] # "_" /\ figures[Len(figures)] # "_"
            /\ \A n \in 1..(Len(figures) - 1) : ~(figures[n] = "_" /\ figures[n + 1] = "_")
    IN  CASE v.t = "num" -> Return(v.n)
          [] v.t = "str" ->
                IF wellformed
                THEN Return(IF negative THEN 0 - decimal(plain) ELSE decimal(plain))
                ELSE Raise("ValueError")
          [] OTHER -> Raise("TypeError")

\* str(v), as "{}".format(v) writes it
RECURSIVE repr_list(_)
repr_list(l) ==
    IF l = <<>> THEN <<>>
    ELSE <<"'">> \o Head(l) \o <<"'">>
         \o (IF Len(l) > 1 THEN <<",", " ">> ELSE <<>>) \o repr_list(Tail(l))

str(v) ==
    CASE v.t = "str" -> v.s
      [] v.t = "num" -> digits(v.n)
      [] v.t = "list" -> <<"[">> \o repr_list(v.l) \o <<"]">>
      [] OTHER -> <<"N", "o", "n", "e">>

\* the characters of [a-zA-Z0-9\-_ ()]
TitleChars ==
    FilenameChars \cup {" ", "(", ")", "N", "o", "n", "e", "0", "2", "4", "5", "6",
                        "7", "8", "9"}

\* a sanitize that keeps every character of the title
sanitize_unfiltered(title) == title

\* "".join([c for c in title if re.match(valid, c)])
sanitize(title) == Filter(title, TitleChars)

\* one line of an .m3u file: the header, an empty line, #EXTINF or a path
Line(text, n, s) == [text |-> text, n |-> n, s |-> s]

\* the lines get_m3u yields for the songs, up to an exception if one is raised
RECURSIVE m3u_songs(_, _)
m3u_songs(songs, h) ==
    IF songs = <<>> THEN Return(<<>>)
    ELSE LET song == h[Head(songs)]
             seconds == IF Has(song.metadata, s_length)
                        THEN int(Get(song.metadata, s_length)) ELSE Return(0)
             title == IF Has(song.metadata, s_title) /\ Has(song.metadata, s_artist)
                      THEN str(Get(song.metadata, s_title)) \o <<" ", "-", " ">>
                           \o str(Get(song.metadata, s_artist))
                      ELSE song.filename
             rest == m3u_songs(Tail(songs), h)
         IN  IF ~Ok(seconds) THEN [res |-> seconds.res, val |-> <<Line("", 0, <<>>)>>]
             ELSE [res |-> rest.res,
                   val |-> <<Line("", 0, <<>>),
                             Line("#EXTINF", seconds.val, sanitize(title)),
                             Line("get_song_path", 0, song.filename)>> \o rest.val]

\* the header line, then the lines for the songs get_songs found
m3u_lines(found, h) ==
    LET lines == IF Ok(found) THEN m3u_songs(found.val, h) ELSE found
    IN  [res |-> lines.res, val |-> <<Line("#EXTM3U", 0, <<>>)>> \o lines.val]

\* Playlist.get_m3u(library): the lines written before it stops
get_m3u(plist, songs, h) == m3u_lines(get_songs(plist, songs, h), h)

(***************************************************************************)
(* io.py: ensure_dir and ensure_empty_dir, on a filesystem of directories. *)
(***************************************************************************)
\* the paths an export may name
DirNames == {"D1", "D2"}

\* a directory entry: a symlink to a file ("link") or to a directory
\* ("linkdir"), a regular file with its lines ("file"), or a directory ("dir")
Entry(name, kind, target, lines) ==
    [name |-> name, kind |-> kind, target |-> target, lines |-> lines]

\* the name of a song's symlink, and of a playlist's file: name + ".m3u"
SongName(filename) == [s |-> filename, p |-> ""]
M3uName(name) == [s |-> <<>>, p |-> name]

\* a path: its parent is missing ("noparent"), it does not exist ("missing"),
\* it is not a directory ("file"), it is a symlink to nothing ("dangling"), or
\* it is a directory with entries ("dir")
Path(st, entries) == [st |-> st, entries |-> entries]

Exit(fs) == [res |-> "SystemExit", fs |-> fs]
Done(fs) == [res |-> "ok", fs |-> fs]

\* an ensure_dir that makes the missing parents too, as os.makedirs does
ensure_dir_makedirs(fs, path) ==
    CASE fs[path].st \in {"noparent", "missing"} ->
            Done([fs EXCEPT ![path] = Path("dir", {})])
      [] fs[path].st = "file" -> Exit(fs)
      [] fs[path].st = "dangling" -> [res |-> "FileExistsError", fs |-> fs]
      [] OTHER -> Done(fs)

\* os.path.exists follows symlinks: a symlink to nothing does not exist, and
\* os.mkdir on it raises FileExistsError
ensure_dir(fs, path) ==
    CASE fs[path].st = "noparent" -> Exit(fs)
      [] fs[path].st = "file" -> Exit(fs)
      [] fs[path].st = "missing" -> Done([fs EXCEPT ![path] = Path("dir", {})])
      [] fs[path].st = "dangling" -> [res |-> "FileExistsError", fs |-> fs]
      [] OTHER -> Done(fs)

\* the orders in which os.listdir may return the entries
Listings(entries) ==
    {l \in [1..Cardinality(entries) -> entries] :
        \A n, m \in 1..Cardinality(entries) : l[n] = l[m] => n = m}

\* the loop of ensure_empty_dir over one listing
RECURSIVE empty_loop(_, _, _, _)
empty_loop(entries, listing, allow_delete_dirs, only_delete_symlinks) ==
    IF listing = <<>> THEN [res |-> "ok", entries |-> entries]
    ELSE LET e == Head(listing)
             rest == empty_loop(entries \ {e}, Tail(listing), allow_delete_dirs,
                                only_delete_symlinks)
         IN  IF e.kind \notin {"link", "linkdir"} /\ only_delete_symlinks
             THEN [res |-> "SystemExit", entries |-> entries]
             ELSE IF e.kind \in {"dir", "linkdir"}
             THEN IF ~allow_delete_dirs
                  THEN [res |-> "SystemExit", entries |-> entries]
                  ELSE IF e.kind = "linkdir"
                  THEN [res |-> "OSError", entries |-> entries]
                  ELSE rest
             ELSE rest

\* the filesystem after a loop over the entries of the directory at path
InDir(fs, path, out) ==
    [res |-> out.res, fs |-> [fs EXCEPT ![path] = Path("dir", out.entries)]]

\* ensure_empty_dir: one outcome per order of the listing
ensure_empty_dir(fs, path, allow_delete_dirs, only_delete_symlinks) ==
    LET made == ensure_dir(fs, path)
    IN  IF ~Ok(made) THEN {made}
        ELSE {InDir(made.fs, path,
                    empty_loop(made.fs[path].entries, listing, allow_delete_dirs,
                               only_delete_symlinks)) :
                 listing \in Listings(made.fs[path].entries)}

(***************************************************************************)
(* exports.py: FlatDirExport and its serialized form.                      *)
(***************************************************************************)
EXPORT_MAPPING == {"flatdir"}

FlatDirExport_serialize(export) ==
    [type |-> "flatdir", music_dir |-> export.music_dir,
     playlist_dir |-> export.playlist_dir]

FlatDirExport_unserialize(config) ==
    IF {"music_dir", "playlist_dir"} \subseteq DOMAIN config
    THEN Return([type |-> "flatdir", music_dir |-> config.music_dir,
                 playlist_dir |-> config.playlist_dir])
    ELSE Raise("KeyError")

\* for _, song in library.songs.items(): os.symlink(src, dest)
RECURSIVE symlink_loop(_, _, _)
symlink_loop(entries, songs, h) ==
    IF songs = <<>> THEN [res |-> "ok", entries |-> entries]
    ELSE LET song == h[Head(songs).v]
             dest == SongName(song.filename)
         IN  IF \E e \in entries : e.name = dest
             THEN [res |-> "FileExistsError", entries |-> entries]
             ELSE symlink_loop(entries \cup {Entry(dest, "link", song.filename, <<>>)},
                               Tail(songs), h)

\* phase 1; one outcome per order of the listing
update_song_symlinks(fs, export, songs, h) ==
    {IF ~Ok(emptied) THEN emptied
     ELSE InDir(emptied.fs, export.music_dir,
                symlink_loop(emptied.fs[export.music_dir].entries, songs, h)) :
        emptied \in ensure_empty_dir(fs, export.music_dir, FALSE, TRUE)}

\* for name, playlist in library.playlists.items(): the file is opened for
\* writing and holds the lines get_m3u yielded
RECURSIVE m3u_loop(_, _, _, _)
RECURSIVE write_m3u(_, _, _, _, _)
m3u_loop(entries, playlists, songs, h) ==
    IF playlists = <<>> THEN [res |-> "ok", entries |-> entries]
    ELSE write_m3u(entries, playlists, songs, h,
                   get_m3u(Head(playlists).v, songs, h))

\* with open(path, "w") as f: the lines of the first playlist are printed
write_m3u(entries, playlists, songs, h, lines) ==
    LET name == M3uName(Head(playlists).k)
        written == {e \in entries : e.name # name}
                       \cup {Entry(name, "file", <<>>, lines.val)}
    IN  IF Ok(lines) THEN m3u_loop(written, Tail(playlists), songs, h)
        ELSE [res |-> lines.res, entries |-> written]

\* phase 2; one outcome per order of the listing
update_playlists(fs, export, playlists, songs, h) ==
    {IF ~Ok(emptied) THEN emptied
     ELSE InDir(emptied.fs, export.playlist_dir,
                m3u_loop(emptied.fs[export.playlist_dir].entries, playlists, songs, h)) :
        emptied \in ensure_empty_dir(fs, export.playlist_dir, FALSE, FALSE)}

\* FlatDirExport.update
update(fs, export, playlists, songs, h) ==
    UNION {IF Ok(linked) THEN update_playlists(linked.fs, export, playlists, songs, h)
           ELSE {linked} :
              linked \in update_song_symlinks(fs, export, songs, h)}

\* cli.export: for name, export in library.exports.items(): export.update(library)
RECURSIVE update_each(_, _, _, _, _)
update_each(fs, exports, playlists, songs, h) ==
    IF exports = <<>> THEN {Done(fs)}
    ELSE UNION {IF Ok(out) THEN update_each(out.fs, Tail(exports), playlists, songs, h)
                ELSE {out} :
                   out \in update(fs, Head(exports).v, playlists, songs, h)}

(***************************************************************************)
(* library.py: serialization.                                              *)
(***************************************************************************)
serialize_song(song) ==
    [filename |-> song.filename, date_added |-> isoformat(song.date_added),
     metadata |-> song.metadata]

\* whether dateutil can parse the string
IsDate(s) == Len(s) \in {2, 4} /\ s[1] = "T"

unserialize_song(song) ==
    IF "filename" \notin DOMAIN song \/ "date_added" \notin DOMAIN song
    THEN Raise("KeyError")
    ELSE IF ~IsDate(song.date_added) THEN Raise("ValueError")
    ELSE Return(Song(song.filename, parse(song.date_added),
                     IF "metadata" \in DOMAIN song THEN song.metadata ELSE EmptyDict))

RECURSIVE unserialize_songs(_, _)
\* _unserialize_songs: a new Song object per item, allocated in h
unserialize_songs(songs, h) ==
    IF songs = <<>> THEN [res |-> "ok", val |-> EmptyDict, heap |-> h]
    ELSE LET one == unserialize_song(Head(songs).v)
             id == FreshId(h)
             rest == unserialize_songs(Tail(songs), (id :> one.val) @@ h)
         IN  IF ~Ok(one) THEN [res |-> one.res, val |-> EmptyDict, heap |-> h]
             ELSE IF ~Ok(rest) THEN [res |-> rest.res, val |-> EmptyDict, heap |-> h]
             ELSE [res |-> "ok", val |-> <<[k |-> Head(songs).k, v |-> id]>> \o rest.val,
                   heap |-> rest.heap]

unserialize_export(config) ==
    IF config.type \notin EXPORT_MAPPING THEN Raise("KeyError")
    ELSE FlatDirExport_unserialize(config)

\* a dict comprehension {name: f(config) for ...}: the dict or the exception
Comprehend(items, rs) ==
    IF Ok(All(rs))
    THEN Return([n \in 1..Len(items) |-> [k |-> items[n].k, v |-> rs[n].val]])
    ELSE All(rs)

unserialize_exports(exports) ==
    Comprehend(exports, [n \in 1..Len(exports) |-> unserialize_export(exports[n].v)])

unserialize_playlist(config, songs) ==
    IF config.type \notin PLAYLIST_MAPPING THEN Raise("KeyError")
    ELSE IF config.type = "simple" THEN SimplePlaylist_unserialize(config, songs)
    ELSE AutoPlaylist_unserialize(config)

\* songs is self.songs, which load_config has already replaced
unserialize_playlists(plists, songs) ==
    Comprehend(plists,
               [n \in 1..Len(plists) |-> unserialize_playlist(plists[n].v, songs)])

\* getattr(self, a) in the state st = [cls, lib, heap, ...]
AttrIn(st, i, a) == IF a \in st.lib[i].own THEN st.lib[i][a] ELSE st.cls[a]

\* get_config of instance i in the state st: the three dict comprehensions
\* of _serialize_exports, _serialize_playlists and _serialize_songs
config_of(st, i) ==
    LET exports == AttrIn(st, i, "exports")
        plists == AttrIn(st, i, "playlists")
        songs == AttrIn(st, i, "songs")
    IN  [extensions |-> AttrIn(st, i, "extensions"),
         exports |-> [n \in 1..Len(exports) |->
                         Item(exports[n].k, FlatDirExport_serialize(exports[n].v))],
         playlists |-> [n \in 1..Len(plists) |->
                           Item(plists[n].k, serialize_playlist(plists[n].v, st.heap))],
         songs |-> [n \in 1..Len(songs) |->
                       Item(songs[n].k, serialize_song(st.heap[songs[n].v]))]]

get_config(i) == config_of(Snapshot, i)

\* self.a = val
SetAttr(l, a, val) == [l EXCEPT !.own = @ \cup {a}, ![a] = val]

\* config[attr] when the file has no such field: getattr(self, attr), whose
\* items are objects and not serialized records; unserializing one of them
\* subscripts an object (TypeError)
Defaulted(i, config, a) ==
    IF a \in DOMAIN config THEN Return(config[a])
    ELSE IF Attr(i, a) = EmptyDict THEN Return(EmptyDict)
    ELSE Raise("TypeError")

\* load_config of instance i: the instance afterwards, the heap and the
\* outcome. Each attribute is assigned as soon as it is unserialized.
load_config(i, config) ==
    LET l1 == SetAttr(lib[i], "extensions",
                      IF "extensions" \in DOMAIN config THEN config.extensions
                      ELSE Attr(i, "extensions"))
        sc == Defaulted(i, config, "songs")
        sg == IF Ok(sc) THEN unserialize_songs(sc.val, heap)
              ELSE [res |-> sc.res, val |-> EmptyDict, heap |-> heap]
        l2 == SetAttr(l1, "songs", sg.val)
        ec == Defaulted(i, config, "exports")
        ex == IF Ok(ec) THEN unserialize_exports(ec.val) ELSE ec
        l3 == SetAttr(l2, "exports", ex.val)
        pc0 == Defaulted(i, config, "playlists")
        pl == IF Ok(pc0) THEN unserialize_playlists(pc0.val, sg.val) ELSE pc0
        l4 == SetAttr(l3, "playlists", pl.val)
    IN  IF ~Ok(sg) THEN [res |-> sg.res, lib |-> l1, heap |-> heap]
        ELSE IF ~Ok(ex) THEN [res |-> ex.res, lib |-> l2, heap |-> sg.heap]
        ELSE IF ~Ok(pl) THEN [res |-> pl.res, lib |-> l3, heap |-> sg.heap]
        ELSE [res |-> "ok", lib |-> l4, heap |-> sg.heap]

(***************************************************************************)
(* The calls.  pc is "idle" between two calls of the running process.      *)
(***************************************************************************)
Finish(l, h) ==
    /\ lib' = l
    /\ heap' = Collect(h, cls', l)

\* Library.load(): open the catalog file, json.load it, load_config
load(i) ==
    /\ pc = "idle"
    /\ LET r == IF configFile = <<>>
                THEN [res |-> "FileNotFoundError", lib |-> lib[i], heap |-> heap]
                ELSE IF configFile[1].done < NumChunks
                THEN [res |-> "ValueError", lib |-> lib[i], heap |-> heap]
                ELSE load_config(i, configFile[1].data)
       IN  /\ cls' = cls
           /\ Finish([lib EXCEPT ![i] = r.lib], r.heap)
           /\ last' = Call("load", [i |-> i], r.res)
    /\ UNCHANGED <<music, srcs, configFile, tmpFile, tmpSameFs, dirs, pc>>

\* how far a copy gets: -1 when the destination cannot be opened, else the
\* number of chunks written (all of them: the copy succeeds)
CopyOutcomes == -1..NumChunks

\* self.<attr>[key] = val: the dict the attribute resolves to (the instance's
\* or, failing that, the class's) is changed in place
SetItem(i, attr, key, val, h) ==
    /\ IF attr \in lib[i].own
       THEN /\ cls' = cls
            /\ lib' = [lib EXCEPT ![i][attr] = Put(@, key, val)]
       ELSE /\ cls' = [cls EXCEPT ![attr] = Put(@, key, val)]
            /\ lib' = lib
    /\ heap' = Collect(h, cls', lib')

\* a handler that takes only a missing source for a failed copy
copy_failed_missing_only(path, copied) == path \notin DOMAIN srcs

\* shutil.copyfile / shutil.move raised IOError: the source is missing, or
\* the copy stopped before the last chunk
copy_failed(path, copied) == path \notin DOMAIN srcs \/ copied < NumChunks

\* an add_song that catches nothing update_metadata raises
tags_fatal_uncaught(tags) == tags.st # "ok"

\* song.update_metadata raised something that add_song does not catch: only
\* UnableToReadTagsException (the helper's non-zero exit) is caught
tags_fatal(tags) == tags.st = "OSError"

\* Library.add_song(path, date_added, move).  date_added is <<>> (None) or
\* <<date>>; now is datetime.now(), copied what the copy or move did and tags
\* what the tag helper did.
add_song(i, path, date_added, move, now, copied, tags) ==
    LET date == IF date_added = <<>> THEN now ELSE date_added[1]
        filename == gen_filename(path)
        \* what the call met: how far the copy got (-1 without a source) and
        \* what the tag helper did, if it was run at all
        arg == [i |-> i, path |-> path, filename |-> filename,
                date_added |-> date_added, now |-> now, move |-> move,
                copied |-> IF path \in DOMAIN srcs THEN copied ELSE -1,
                tags |-> IF copy_failed(path, copied) THEN "not run" ELSE tags.st]
        id == FreshId(heap)
        metadata == IF tags.st = "ok" THEN get_tags(tags.attrs) ELSE EmptyDict
    IN  /\ pc = "idle"
        /\ last.n < MaxOps
        /\ IF path \notin DOMAIN srcs \/ copied = -1
           THEN \* IOError before the destination is written
                UNCHANGED <<music, srcs>>
           ELSE /\ music' = (filename :> File(srcs[path], copied)) @@ music
                /\ srcs' = IF move /\ copied = NumChunks
                           THEN [q \in DOMAIN srcs \ {path} |-> srcs[q]]
                           ELSE srcs
        /\ IF copy_failed(path, copied)
           THEN \* except IOError: print(...); sys.exit(1), and library.py
                \* does not import sys
                /\ last' = Call("add_song", arg, "NameError")
                /\ UNCHANGED <<cls, lib, heap>>
           ELSE IF tags_fatal(tags)
           THEN /\ last' = Call("add_song", arg, "OSError")
                /\ UNCHANGED <<cls, lib, heap>>
           ELSE /\ SetItem(i, "songs", filename, id,
                           (id :> Song(filename, date, metadata)) @@ heap)
                /\ last' = Call("add_song", arg, "ok")
        /\ UNCHANGED <<configFile, tmpFile, tmpSameFs, dirs, pc>>

\* cli.py remove(filenames), with the library loaded by get_library_or_die.
\* Library defines no remove_song, so the first filename found in songs
\* ends the command with an AttributeError; a filename not in songs is
\* counted as an error, and the command aborts when the user says so or when
\* every filename was an error.  With a filename to remove, the confirmation
\* prompt and the save() after it are never reached.
RECURSIVE remove_loop(_, _, _, _)
remove_loop(songs, filenames, n, continue) ==
    IF n > Len(filenames) THEN "done"
    ELSE IF Has(songs, filenames[n]) THEN "AttributeError"
    ELSE IF n = Len(filenames) \/ ~continue[n] THEN "aborted"
    ELSE remove_loop(songs, filenames, n + 1, continue)

\* a remove whose library.remove_song(filename) is `del self.songs[filename]`
remove_deleting(i, filenames, continue) ==
    LET gone == {filenames[n] : n \in 1..Len(filenames)}
        kept(songs) == SelectSeq(songs, LAMBDA item : item.k \notin gone)
    IN  /\ pc = "idle"
        /\ last.n < MaxOps
        /\ filenames # <<>>
        /\ IF "songs" \in lib[i].own
           THEN cls' = cls /\ lib' = [lib EXCEPT ![i].songs = kept(@)]
           ELSE cls' = [cls EXCEPT !.songs = kept(@)] /\ lib' = lib
        /\ heap' = Collect(heap, cls', lib')
        /\ last' = Call("remove", [i |-> i, filenames |-> filenames], "done")
        /\ UNCHANGED <<music, srcs, configFile, tmpFile, tmpSameFs, dirs, pc>>

remove(i, filenames, continue) ==
    /\ pc = "idle"
    /\ last.n < MaxOps
    /\ filenames # <<>>
    /\ last' = Call("remove", [i |-> i, filenames |-> filenames],
                    remove_loop(Attr(i, "songs"), filenames, 1, continue))
    /\ UNCHANGED <<cls, lib, heap, music, srcs, configFile, tmpFile, tmpSameFs, dirs, pc>>

\* cli.py playlist_new: library.playlists[name] = SimplePlaylist() or
\* AutoPlaylist() for a name not taken; library.save() is called next
playlist_new(i, name, ptype) ==
    /\ pc = "idle"
    /\ last.n < MaxOps
    /\ ~Has(Attr(i, "playlists"), name)
    /\ SetItem(i, "playlists", name, NewPlaylist(ptype), heap)
    /\ last' = Call("playlist_new", [i |-> i, name |-> name], "ok")
    /\ pc' = "call_save"
    /\ UNCHANGED <<music, srcs, configFile, tmpFile, tmpSameFs, dirs>>

\* Library.set_defaults: the playlist "last-added", unless there is one
set_defaults(i) ==
    /\ pc = "idle"
    /\ last.n < MaxOps
    /\ IF Has(Attr(i, "playlists"), "last-added")
       THEN UNCHANGED <<cls, lib, heap>>
       ELSE SetItem(i, "playlists", "last-added", NewPlaylist("auto"), heap)
    /\ last' = Call("set_defaults", [i |-> i], "ok")
    /\ UNCHANGED <<music, srcs, configFile, tmpFile, tmpSameFs, dirs, pc>>

(***************************************************************************)
(* Library.save(), one step per system call.                               *)
(***************************************************************************)
\* handle, path = tempfile.mkstemp(); get_config(). `removing` is what the
\* command was asked to remove before it saves (cli.py remove)
save_mkstemp(i) ==
    /\ \/ pc = "idle" /\ last.n < MaxOps
       \/ pc = "call_save" /\ last.arg.i = i
    /\ tmpFile' = <<File(get_config(i), 0)>>
    /\ last' = Call("save",
                    [i |-> i, config |-> get_config(i),
                     removing |-> IF last.op = "remove" THEN last.arg.filenames
                                  ELSE <<>>],
                    "running")
    /\ pc' = "dump"
    /\ UNCHANGED <<cls, lib, heap, music, srcs, configFile, tmpSameFs, dirs>>

\* json.dump(config, file): one write
save_dump ==
    /\ pc = "dump"
    /\ tmpFile[1].done < NumChunks
    /\ tmpFile' = <<[tmpFile[1] EXCEPT !.done = @ + 1]>>
    /\ UNCHANGED <<cls, lib, heap, music, srcs, configFile, tmpSameFs, dirs, pc, last>>

\* shutil.move(path, get_config_path()) on one filesystem: os.rename
save_rename ==
    /\ pc = "dump"
    /\ tmpFile[1].done = NumChunks
    /\ tmpSameFs
    /\ configFile' = tmpFile
    /\ tmpFile' = <<>>
    /\ pc' = "idle"
    /\ last' = [last EXCEPT !.res = "ok"]
    /\ UNCHANGED <<cls, lib, heap, music, srcs, tmpSameFs, dirs>>

\* shutil.move across filesystems: os.rename fails, and the file is copied
\* (copy2 opens the destination for writing, which truncates it) ...
save_copy_open ==
    /\ pc = "dump"
    /\ tmpFile[1].done = NumChunks
    /\ ~tmpSameFs
    /\ configFile' = <<File(tmpFile[1].data, 0)>>
    /\ pc' = "copy"
    /\ UNCHANGED <<cls, lib, heap, music, srcs, tmpFile, tmpSameFs, dirs, last>>

save_copy_write ==
    /\ pc = "copy"
    /\ configFile[1].done < NumChunks
    /\ configFile' = <<[configFile[1] EXCEPT !.done = @ + 1]>>
    /\ UNCHANGED <<cls, lib, heap, music, srcs, tmpFile, tmpSameFs, dirs, pc, last>>

\* ... and the temporary file is unlinked
save_copy_unlink ==
    /\ pc = "copy"
    /\ configFile[1].done = NumChunks
    /\ tmpFile' = <<>>
    /\ pc' = "idle"
    /\ last' = [last EXCEPT !.res = "ok"]
    /\ UNCHANGED <<cls, lib, heap, music, srcs, configFile, tmpSameFs, dirs>>

\* the process dies inside save(): it is killed, or a write or the move
\* raises (no space left, say) and the exception ends the command
save_interrupted ==
    /\ pc \in {"dump", "copy"}
    /\ pc' = "dead"
    /\ last' = [last EXCEPT !.res = "interrupted"]
    /\ UNCHANGED <<cls, lib, heap, music, srcs, configFile, tmpFile, tmpSameFs, dirs>>

(***************************************************************************)
(* The files and records of the model.                                     *)
(***************************************************************************)
\* source paths: the first two generate the same filename, the third has a
\* stripped character, the last does not exist
path_a == <<"d", "/", "a", " ", "b", ".", "m">>
path_b == <<"a", "-", "b", ".", "m">>
path_c == <<"c", "!", ".", "m", "p", "3">>
path_none == <<"p", ".", "m">>

SourceFiles == (path_a :> "data a") @@ (path_b :> "data b") @@ (path_c :> "data c")

f_ab == <<"a", "-", "b", ".", "m">>
f_c == <<"c", ".", "m", "p", "3">>

\* a catalog file with one song, in one simple playlist, and an auto playlist
DocOne ==
    [extensions |-> DefaultExtensions,
     exports |-> EmptyDict,
     playlists |-> <<Item("mix", [type |-> "simple", songs |-> <<f_ab>>]),
                     Item("last-added", [type |-> "auto", conditions |-> <<>>,
                                         sort |-> <<s_artist, s_title>>])>>,
     songs |-> <<Item(f_ab, [filename |-> f_ab, date_added |-> isoformat(Date(1, 0)),
                             metadata |-> <<Item(s_title, Str(<<"a">>))>>])>>]

Start == [op |-> "start", arg |-> <<>>, res |-> "ok", pre |-> <<>>, n |-> 0]

\* a process that has just started, with the library directory as it is left
\* by earlier commands: no catalog yet, or DocOne and its media file
InitProcess ==
    /\ cls = LibraryClass
    /\ lib = [i \in Instances |-> NewLibrary]
    /\ heap = <<>>
    /\ srcs = SourceFiles
    /\ tmpFile = <<>>
    /\ pc = "idle"
    /\ last = Start

Init ==
    /\ InitProcess
    /\ \/ configFile = <<>> /\ music = <<>>
       \/ configFile = <<Whole(DocOne)>> /\ music = (f_ab :> Whole("data 0"))
    /\ tmpSameFs = TRUE
    /\ dirs = <<>>

AddPaths == {path_a, path_b, path_none}

\* date_added as the caller gives it (None or a date), and datetime.now()
GivenDates == {<<>>, <<Date(1, 0)>>}
NowDates == {Date(2, 5)}

\* a command loads the library first (get_library_or_die)
Next ==
    \/ last.op = "start" /\ load(1)
    \/ \E path \in AddPaths, date_added \in GivenDates,
          move \in BOOLEAN, now \in NowDates, copied \in CopyOutcomes,
          tags \in TagOutcomes :
            add_song(1, path, date_added, move, now, copied, tags)
    \/ \E filenames \in {<<f_ab>>, <<f_c>>, <<f_c, f_ab>>},
          continue \in [1..2 -> BOOLEAN] :
            remove(1, filenames, continue)

Spec == Init /\ [][Next]_vars

(***************************************************************************)
(* Catalog files, valid and not, and the specification of load and save.   *)
(***************************************************************************)
SongRecord(filename, date, metadata) ==
    [filename |-> filename, date_added |-> isoformat(date), metadata |-> metadata]

\* two songs (the second without a metadata field), an export, a simple
\* playlist and an auto playlist with a nested rule and no sort field
DocRich ==
    [extensions |-> <<"mp3">>,
     exports |-> <<Item("usb", [type |-> "flatdir", music_dir |-> "D1",
                                playlist_dir |-> "D2"])>>,
     playlists |->
        <<Item("mix", [type |-> "simple", songs |-> <<f_c, f_ab>>]),
          Item("rock", [type |-> "auto",
                        conditions |->
                            << <<s_genre, "contains any", List(<< <<"a">>, <<"b">> >>)>>,
                               <<s_or, << <<s_artist, "is not", Str(<<"B">>)>>,
                                          <<s_and, <<>> >> >> >> >>])>>,
     songs |-> <<Item(f_ab, SongRecord(f_ab, Date(1, 0),
                                       <<Item(s_title, Str(<<"a">>)),
                                         Item(s_length, Num(3))>>)),
                 Item(f_c, [filename |-> f_c, date_added |-> isoformat(Date(2, 5))])>>]

Songs1 == <<Item(f_ab, SongRecord(f_ab, Date(2, 0), EmptyDict))>>

\* a playlist of a type PLAYLIST_MAPPING does not have
DocUnknownPlaylist ==
    [extensions |-> <<"ogg">>, exports |-> EmptyDict, songs |-> Songs1,
     playlists |-> <<Item("mix", [type |-> "smart", songs |-> <<f_ab>>])>>]

\* an export of a type EXPORT_MAPPING does not have
DocUnknownExport ==
    [extensions |-> <<"ogg">>, songs |-> Songs1, playlists |-> EmptyDict,
     exports |-> <<Item("pod", [type |-> "ipod", music_dir |-> "D1",
                                playlist_dir |-> "D2"])>>]

\* a simple playlist that names a file songs does not have
DocDangling ==
    [extensions |-> <<"ogg">>, exports |-> EmptyDict, songs |-> Songs1,
     playlists |-> <<Item("mix", [type |-> "simple", songs |-> <<f_ab, f_c>>])>>]

\* a rule of two elements that is no combinator
DocBadCondition ==
    [extensions |-> <<"ogg">>, exports |-> EmptyDict, songs |-> Songs1,
     playlists |-> <<Item("rock", [type |-> "auto", sort |-> <<s_title>>,
                                   conditions |-> << <<s_artist, "is">> >>])>>]

\* a list operator with a scalar value
DocBadArity ==
    [extensions |-> <<"ogg">>, exports |-> EmptyDict, songs |-> Songs1,
     playlists |-> <<Item("rock", [type |-> "auto", sort |-> <<s_title>>,
                                   conditions |-> << <<s_artist, "in", Str(<<"B">>)>> >>])>>]

\* no songs field, and a simple playlist that names a file
DocNoSongs ==
    [playlists |-> <<Item("mix", [type |-> "simple", songs |-> <<f_ab>>])>>]

\* only a songs field
DocOnlySongs == [songs |-> Songs1]

\* only an extensions field
DocOnlyExtensions == [extensions |-> <<"mp3">>]

Docs ==
    {DocOne, DocRich, DocUnknownPlaylist, DocUnknownExport, DocDangling,
     DocBadCondition, DocBadArity, DocNoSongs, DocOnlySongs, DocOnlyExtensions}

\* the library directory holds any of the catalog files; the temporary
\* directory is on the library's filesystem or on another one
InitCatalog ==
    /\ InitProcess
    /\ configFile \in {<<Whole(doc)>> : doc \in Docs}
    /\ music = (f_ab :> Whole("data 0"))
    /\ tmpSameFs \in BOOLEAN
    /\ dirs = <<>>

\* a command loads the library first; a saved catalog is loaded again, into
\* the same Library or into a new one (as cli.py vi does), and so is the
\* catalog on disk after set_defaults
NextCatalog ==
    \/ last.op = "start" /\ load(1)
    \/ last.op \in {"save", "set_defaults"} /\ \E i \in Instances : load(i)
    \/ \E ptype \in PLAYLIST_MAPPING : playlist_new(1, "new", ptype)
    \/ set_defaults(1)
    \/ \E filenames \in {<<f_ab>>, <<f_c>>} :
          remove(1, filenames, [n \in 1..2 |-> FALSE])
    \/ \E date_added \in GivenDates, now \in NowDates,
          tags \in {t \in TagOutcomes : ~tags_fatal(t)} :
            add_song(1, path_b, date_added, FALSE, now, NumChunks, tags)
    \/ save_mkstemp(1)
    \/ save_dump
    \/ save_rename
    \/ save_copy_open
    \/ save_copy_write
    \/ save_copy_unlink
    \/ save_interrupted

SpecCatalog == InitCatalog /\ [][NextCatalog]_vars

(***************************************************************************)
(* cli.export on a filesystem (specification SpecExport).                  *)
(***************************************************************************)
\* cli.export: every export of the library is updated, in order
export(i) ==
    /\ pc = "idle"
    /\ last.n < MaxOps
    /\ \E out \in IF Len(Attr(i, "exports")) <= 0 THEN {Exit(dirs)}
                  ELSE update_each(dirs, Attr(i, "exports"), Attr(i, "playlists"),
                                   Attr(i, "songs"), heap) :
          /\ dirs' = out.fs
          /\ last' = Call("export",
                          [i |-> i, again |-> last.op = "export" /\ last.res = "ok"],
                          out.res)
    /\ UNCHANGED <<cls, lib, heap, music, srcs, configFile, tmpFile, tmpSameFs, pc>>

\* the catalog of DocRich, exported to one directory for both phases
DocAlias ==
    [DocRich EXCEPT !.exports = <<Item("usb", [type |-> "flatdir", music_dir |-> "D1",
                                              playlist_dir |-> "D1"])>>]

\* what an export directory may hold before a run: links of an earlier run,
\* a link to a directory, a file, a subdirectory
StaleLink == Entry(SongName(f_c), "link", f_c, <<>>)
StaleDirLink == Entry(SongName(<<"d">>), "linkdir", <<"d">>, <<>>)
StrayFile == Entry(SongName(<<"m">>), "file", <<>>, <<>>)
StrayDir == Entry(SongName(<<"p">>), "dir", <<>>, <<>>)
StaleM3u == Entry(M3uName("mix"), "file", <<>>, <<Line("#EXTM3U", 0, <<>>)>>)

PathStates(pool) ==
    {Path(st, {}) : st \in {"noparent", "missing", "file", "dangling"}}
        \cup {Path("dir", entries) : entries \in SUBSET pool}

InitExport ==
    /\ InitProcess
    /\ configFile \in {<<Whole(doc)>> : doc \in {DocRich, DocAlias, DocOnlySongs}}
    /\ music = (f_ab :> Whole("data 0"))
    /\ tmpSameFs = TRUE
    /\ \E d1 \in PathStates({StaleLink, StaleDirLink, StrayFile, StrayDir}),
          d2 \in PathStates({StaleM3u, StaleLink, StrayDir}) :
          dirs = [d \in DirNames |-> IF d = "D1" THEN d1 ELSE d2]

NextExport ==
    \/ last.op = "start" /\ load(1)
    \/ export(1)

SpecExport == InitExport /\ [][NextExport]_vars

(***************************************************************************)
(* Playlists evaluated on a loaded catalog (specification SpecPlaylist).   *)
(***************************************************************************)
\* self.matches(song), for the AutoPlaylist `name` and the song at `key`
call_matches(i, name, key) ==
    /\ pc = "idle"
    /\ last.n < MaxOps
    /\ Has(Attr(i, "playlists"), name)
    /\ Get(Attr(i, "playlists"), name).type = "auto"
    /\ Has(Attr(i, "songs"), key)
    /\ last' = Call("matches", [i |-> i, name |-> name, key |-> key],
                    matches(Get(Attr(i, "playlists"), name),
                            heap[Get(Attr(i, "songs"), key)]))
    /\ UNCHANGED <<cls, lib, heap, music, srcs, configFile, tmpFile, tmpSameFs, dirs, pc>>

\* song.get_attr(attr), for the song at `key`
call_get_attr(i, key, attr) ==
    /\ pc = "idle"
    /\ last.n < MaxOps
    /\ Has(Attr(i, "songs"), key)
    /\ last' = Call("get_attr", [i |-> i, key |-> key, attr |-> attr],
                    get_attr(heap[Get(Attr(i, "songs"), key)], attr))
    /\ UNCHANGED <<cls, lib, heap, music, srcs, configFile, tmpFile, tmpSameFs, dirs, pc>>

\* playlist.get_songs(library)
call_get_songs(i, name) ==
    /\ pc = "idle"
    /\ last.n < MaxOps
    /\ Has(Attr(i, "playlists"), name)
    /\ last' = Call("get_songs", [i |-> i, name |-> name],
                    get_songs(Get(Attr(i, "playlists"), name), Attr(i, "songs"), heap))
    /\ UNCHANGED <<cls, lib, heap, music, srcs, configFile, tmpFile, tmpSameFs, dirs, pc>>

\* list(playlist.get_m3u(library)); `before` is what the call before this one
\* gave, when it was the same call
call_get_m3u(i, name) ==
    /\ pc = "idle"
    /\ last.n < MaxOps
    /\ Has(Attr(i, "playlists"), name)
    /\ last' = Call("get_m3u",
                    [i |-> i, name |-> name,
                     before |-> IF last.op = "get_m3u" /\ last.arg.name = name
                                THEN <<last.res>> ELSE <<>>],
                    get_m3u(Get(Attr(i, "playlists"), name), Attr(i, "songs"), heap))
    /\ UNCHANGED <<cls, lib, heap, music, srcs, configFile, tmpFile, tmpSameFs, dirs, pc>>

f_m == <<"m", ".", "m">>
f_p == <<"p", ".", "m">>

\* four songs: an artist in capitals between spaces, no metadata at all, and
\* two songs with the same title, one with a length
PlaylistSongs ==
    <<Item(f_ab, SongRecord(f_ab, Date(4, 0),
                            <<Item(s_artist, Str(<<" ", "A", "B", " ">>)),
                              Item(s_title, Str(<<"b">>))>>)),
      Item(f_c, SongRecord(f_c, Date(3, 0), EmptyDict)),
      Item(f_m, SongRecord(f_m, Date(2, 0),
                           <<Item(s_artist, Str(<<"a", "b">>)),
                             Item(s_title, Str(<<"a", "(", "1", ")">>)),
                             Item(s_length, Num(3))>>)),
      Item(f_p, SongRecord(f_p, Date(1, 0),
                           <<Item(s_artist, Str(<<"b">>)),
                             Item(s_title, Str(<<"a", "(", "1", ")">>))>>))>>

\* a catalog of these songs with the AutoPlaylist "auto" and a SimplePlaylist
PlaylistDoc(conditions, fields) ==
    [extensions |-> <<"mp3">>, exports |-> EmptyDict, songs |-> PlaylistSongs,
     playlists |-> <<Item("auto", [type |-> "auto", conditions |-> conditions,
                                   sort |-> fields]),
                     Item("mix", [type |-> "simple", songs |-> <<f_p, f_ab, f_c, f_m>>])>>]

\* rule values: strings that differ in case and in outer whitespace, and lists
ScalarRules ==
    {Str(<<"a", "b">>), Str(<<"A", "b">>), Str(<<" ", "a", "b">>), Str(<<"b">>)}
ListRules ==
    {List(<< <<"a", "b">> >>), List(<< <<"A", "b">>, <<"p">> >>),
     List(<< <<"a">>, <<"b">> >>), List(<< <<" ", "b">> >>)}

\* one leaf on the artist, for each operator and each rule value of its arity
LeafDocs ==
    {PlaylistDoc(<< <<s_artist, phrase, rule>> >>, <<s_artist>>) :
        phrase \in {p \in Phrases : CONDITION_MAPPING(p) \in CONDITIONS_SINGLE},
        rule \in ScalarRules}
    \cup {PlaylistDoc(<< <<s_artist, phrase, rule>> >>, <<s_artist>>) :
             phrase \in {p \in Phrases : CONDITION_MAPPING(p) \in CONDITIONS_MULTIPLE},
             rule \in ListRules}

\* no rule, and the songs ordered on one or two fields, either way
SortDocs ==
    {PlaylistDoc(<<>>, fields) :
        fields \in {<<>>, <<s_title>>, <<<<"!">> \o s_title>>, <<s_artist, s_title>>,
                  <<s_title, <<"!">> \o s_artist>>, <<s_date_added>>,
                  <<<<"!">> \o s_date_added, s_title>>}}

\* a rule that keeps the songs with a title, and a nested `or`
RuleDocs ==
    {PlaylistDoc(<< <<s_title, "contains", Str(<<"a">>)>> >>, <<<<"!">> \o s_artist>>),
     PlaylistDoc(<< <<s_or, << <<s_artist, "is", Str(<<"b">>)>>,
                              <<s_title, "in", List(<< <<"B">> >>)>> >> >> >>,
                 <<s_title>>)}

InitPlaylist ==
    /\ InitProcess
    /\ configFile \in {<<Whole(doc)>> : doc \in LeafDocs \cup SortDocs \cup RuleDocs}
    /\ music = (f_ab :> Whole("data 0"))
    /\ tmpSameFs = TRUE
    /\ dirs = <<>>

NextPlaylist ==
    \/ last.op = "start" /\ load(1)
    \/ \E key \in {f_ab, f_c, f_m, f_p} : call_matches(1, "auto", key)
    \/ \E name \in {"auto", "mix"} : call_get_songs(1, name)
    \/ \E name \in {"auto", "mix"} : call_get_m3u(1, name)
    \/ \E key \in {f_c, f_m}, attr \in {s_date_added, s_filename, s_artist, s_length} :
          call_get_attr(1, key, attr)

SpecPlaylist == InitPlaylist /\ [][NextPlaylist]_vars

(***************************************************************************)
(* gen_filename on the paths of source files (specification SpecFilename). *)
(***************************************************************************)
MaxPath == 4        \* characters of a source path

\* a letter, the character gen_filename replaces, one it drops, and the two
\* that os.path looks for
PathChars == {"a", " ", "!", ".", "/"}

Paths == UNION {[1..n -> PathChars] : n \in 1..MaxPath}

\* filename = gen_filename(path), for a source path or (again) for the name
\* the call before returned
call_gen_filename(path, again) ==
    /\ pc = "idle"
    /\ last.n < MaxOps
    /\ last' = Call("gen_filename",
                    [path |-> path, again |-> again,
                     before |-> IF last.op = "gen_filename" /\ last.arg.path = path
                                THEN <<last.res>> ELSE <<>>],
                    gen_filename(path))
    /\ UNCHANGED <<cls, lib, heap, music, srcs, configFile, tmpFile, tmpSameFs, dirs, pc>>

\* a process started on one source file, outside any library
InitFilename ==
    /\ cls = LibraryClass
    /\ lib = [i \in Instances |-> NewLibrary]
    /\ heap = <<>>
    /\ srcs \in {(path :> "data") : path \in Paths}
    /\ music = <<>>
    /\ configFile = <<>>
    /\ tmpFile = <<>>
    /\ tmpSameFs = TRUE
    /\ dirs = <<>>
    /\ pc = "idle"
    /\ last = Start

NextFilename ==
    \/ \E path \in DOMAIN srcs : call_gen_filename(path, FALSE)
    \/ last.op = "gen_filename" /\ call_gen_filename(last.res, TRUE)

SpecFilename == InitFilename /\ [][NextFilename]_vars

(***************************************************************************)
(* Properties of add_song and remove (specification Spec).                 *)
(***************************************************************************)
Now == Snapshot

AddedTo(i) == last.op = "add_song" /\ last.arg.i = i

\* the copy or move of the last add_song raised
CopyRaised ==
    \/ last.arg.path \notin DOMAIN last.pre.srcs
    \/ last.arg.copied < NumChunks

Collides(i) == AddedTo(i) /\ Has(AttrIn(last.pre, i, "songs"), last.arg.filename)

SongAt(st, i, filename) == st.heap[Get(AttrIn(st, i, "songs"), filename)]

\* C2: add_song of a path whose generated filename is already a key of songs
\* fails, and leaves the existing Song record and the existing managed media
\* file as they were.
C2_CollisionRejected ==
    \A i \in Instances :
        Collides(i) =>
            /\ last.res # "ok"
            /\ SongAt(Now, i, last.arg.filename) = SongAt(last.pre, i, last.arg.filename)
            /\ music = last.pre.music

\* C3: when the copy (or move) fails, add_song fails and songs, playlists,
\* exports and extensions of the Library are what they were before the call;
\* no Song record is added.
C3_CopyFailureLeavesCatalog ==
    (last.op = "add_song" /\ CopyRaised) =>
        /\ last.res # "ok"
        /\ cls = last.pre.cls
        /\ lib = last.pre.lib
        /\ heap = last.pre.heap

\* a copy that stopped half-way into a catalog that has songs
C3_Witness ==
    /\ AddedTo(1) /\ CopyRaised
    /\ last.arg.path \in DOMAIN last.pre.srcs
    /\ last.arg.copied >= 0
    /\ AttrIn(Now, 1, "songs") # EmptyDict

\* C9: removing a song whose filename is a key of songs deletes exactly that
\* key from the song map, leaves every other record unchanged and leaves the
\* media file in place.
C9_RemoveDeletesKey ==
    (/\ last.op = "remove"
     /\ Len(last.arg.filenames) = 1
     /\ Has(AttrIn(last.pre, last.arg.i, "songs"), last.arg.filenames[1])) =>
        /\ Keys(AttrIn(Now, last.arg.i, "songs"))
             = Keys(AttrIn(last.pre, last.arg.i, "songs")) \ {last.arg.filenames[1]}
        /\ \A f \in Keys(AttrIn(Now, last.arg.i, "songs")) :
               SongAt(Now, last.arg.i, f) = SongAt(last.pre, last.arg.i, f)
        /\ music = last.pre.music

\* C10: when the copy succeeds and tag extraction fails with the
\* unreadable-tags error, add_song returns normally and the song is in songs
\* under its generated filename, with empty metadata and the given date_added
\* (the current time when none was given).
C10_UnreadableTagsStillAdded ==
    \A i \in Instances :
        (AddedTo(i) /\ ~CopyRaised /\ last.arg.tags = "CalledProcessError") =>
            /\ last.res = "ok"
            /\ Has(AttrIn(Now, i, "songs"), last.arg.filename)
            /\ SongAt(Now, i, last.arg.filename)
                 = Song(gen_filename(last.arg.path),
                        IF last.arg.date_added = <<>> THEN last.arg.now
                        ELSE last.arg.date_added[1],
                        EmptyDict)

\* unreadable tags on a file that replaces a song which had metadata
C10_Witness ==
    /\ AddedTo(1) /\ ~CopyRaised /\ last.arg.tags = "CalledProcessError"
    /\ last.arg.date_added # <<>>
    /\ Collides(1)
    /\ SongAt(last.pre, 1, last.arg.filename).metadata # EmptyDict

(***************************************************************************)
(* Properties of save and load (specification SpecCatalog).                *)
(***************************************************************************)
IsWhole(file) == file = <<>> \/ file[1].done = NumChunks

\* C1: if save() is interrupted at any step, the catalog file afterwards holds
\* the complete previously committed content or the complete new content.
C1_InterruptedSaveKeepsCatalog ==
    (/\ last.op = "save"
     /\ pc = "dead"
     /\ IsWhole(last.pre.configFile)) =>
        configFile \in {last.pre.configFile, <<Whole(last.arg.config)>>}

Loaded(i) == last.op = "load" /\ last.arg.i = i

\* the catalog file that the last load read
LoadedDoc == last.pre.configFile[1].data

\* the Library's songs with the Song objects in place of the references
SongsOf(st, i) ==
    LET songs == AttrIn(st, i, "songs")
    IN  [n \in 1..Len(songs) |-> Item(songs[n].k, st.heap[songs[n].v])]

PlaylistView(st, plist) ==
    [type |-> plist.type,
     songs |-> [n \in 1..Len(PAttr(plist, "songs")) |->
                   st.heap[PAttr(plist, "songs")[n]].filename],
     sort |-> PAttr(plist, "sort"),
     conditions |-> PAttr(plist, "conditions")]

PlaylistsOf(st, i) ==
    LET plists == AttrIn(st, i, "playlists")
    IN  [n \in 1..Len(plists) |-> Item(plists[n].k, PlaylistView(st, plists[n].v))]

\* C6: when load fails because of a configuration error (unknown export or
\* playlist type, dangling simple-playlist reference, malformed condition
\* node), extensions, songs, exports and playlists of the Library are what
\* they were before the call.
C6_FailedLoadChangesNothing ==
    \A i \in Instances :
        (Loaded(i) /\ last.res \in {"KeyError", "Exception"}) =>
            /\ AttrIn(Now, i, "extensions") = AttrIn(last.pre, i, "extensions")
            /\ SongsOf(Now, i) = SongsOf(last.pre, i)
            /\ AttrIn(Now, i, "exports") = AttrIn(last.pre, i, "exports")
            /\ PlaylistsOf(Now, i) = PlaylistsOf(last.pre, i)

\* the filenames the simple playlists of a catalog file list
SimpleNames(doc) ==
    IF "playlists" \notin DOMAIN doc THEN {}
    ELSE UNION {IF doc.playlists[n].v.type = "simple"
                THEN {doc.playlists[n].v.songs[m] :
                         m \in 1..Len(doc.playlists[n].v.songs)}
                ELSE {} : n \in 1..Len(doc.playlists)}

FileSongKeys(doc) == IF "songs" \in DOMAIN doc THEN Keys(doc.songs) ELSE {}

\* C7: load succeeds only if every filename listed in every simple playlist
\* of the file is a key of the file's songs; after a successful load each
\* Song a SimplePlaylist refers to is a value of library.songs.
C7_LoadResolvesReferences ==
    \A i \in Instances :
        (Loaded(i) /\ last.res = "ok") =>
            /\ SimpleNames(LoadedDoc) \subseteq FileSongKeys(LoadedDoc)
            /\ SimpleRefs(AttrIn(Now, i, "playlists")) \subseteq Values(AttrIn(Now, i, "songs"))

\* a successful load of a file whose simple playlist lists two songs
C7_Witness ==
    /\ Loaded(1) /\ last.res = "ok"
    /\ Cardinality(SimpleNames(LoadedDoc)) = 2
    /\ Cardinality(SimpleRefs(AttrIn(Now, 1, "playlists"))) = 2

\* the catalog as claim C8 compares it
CatalogView(st, i) ==
    [songs |-> SongsOf(st, i), exports |-> AttrIn(st, i, "exports"),
     playlists |-> PlaylistsOf(st, i)]

\* the file read by the last load is what save() wrote for instance j
SavedFrom(j) ==
    /\ last.op = "load"
    /\ last.pre.configFile = <<Whole(config_of(last.pre, j))>>

\* C8: save() followed by load() yields the same songs (keys, filename,
\* date_added, metadata), exports (type, directories) and playlists (type,
\* song order, sort, condition tree); the top-level `and` of an AutoPlaylist
\* is absent from the file and restored on read: the loaded conditions
\* serialize to the list that was read.
C8_SaveLoadRoundTrip ==
    \A i \in Instances :
        /\ \A j \in Instances :
              (Loaded(i) /\ SavedFrom(j)) =>
                  /\ last.res = "ok"
                  /\ CatalogView(Now, i) = CatalogView(last.pre, j)
        /\ (Loaded(i) /\ last.res = "ok" /\ "playlists" \in DOMAIN LoadedDoc) =>
              \A n \in 1..Len(LoadedDoc.playlists) :
                  LoadedDoc.playlists[n].v.type = "auto" =>
                      /\ serialize_conditions(Get(AttrIn(Now, i, "playlists"),
                                                  LoadedDoc.playlists[n].k))
                           = LoadedDoc.playlists[n].v.conditions
                      /\ LoadedDoc.playlists[n].v.conditions
                           = [m \in 1..Len(PAttr(AttrIn(Now, i, "playlists")[n].v,
                                                 "conditions")) |->
                                 serialize_condition(
                                     PAttr(AttrIn(Now, i, "playlists")[n].v,
                                           "conditions")[m])]

\* a catalog with two songs, a playlist of two rules and a date with
\* microseconds, saved by one Library and loaded into another
C8_Witness ==
    /\ Loaded(2) /\ SavedFrom(1) /\ last.res = "ok"
    /\ Len(AttrIn(Now, 2, "songs")) = 2
    /\ \E n \in 1..Len(AttrIn(Now, 2, "playlists")) :
          Len(PAttr(AttrIn(Now, 2, "playlists")[n].v, "conditions")) = 2
    /\ \E o \in DOMAIN heap : heap[o].date_added.usec # 0
    /\ \E o \in DOMAIN heap : heap[o].date_added = Date(1, 0) /\ heap[o].metadata # EmptyDict

(***************************************************************************)
(* Properties of the flat-dir export (specification SpecExport).           *)
(***************************************************************************)
\* the export that the last run of cli.export updated first
FirstExport == AttrIn(last.pre, last.arg.i, "exports")[1].v

Exported == last.op = "export" /\ Len(AttrIn(last.pre, last.arg.i, "exports")) > 0

IsSymlink(e) == e.kind \in {"link", "linkdir"}

\* C4: if the music directory of the export holds an entry that is not a
\* symlink, update() fails fatally, every entry that was in the music
\* directory before the call is still there, no symlink has been created and
\* the playlist directory is as it was.
C4_NonSymlinkStopsExportUntouched ==
    (/\ Exported
     /\ last.pre.dirs[FirstExport.music_dir].st = "dir"
     /\ \E e \in last.pre.dirs[FirstExport.music_dir].entries : ~IsSymlink(e)) =>
        /\ last.res = "SystemExit"
        /\ last.pre.dirs[FirstExport.music_dir].entries
              \subseteq dirs[FirstExport.music_dir].entries
        /\ dirs[FirstExport.music_dir].entries
              \subseteq last.pre.dirs[FirstExport.music_dir].entries
        /\ dirs[FirstExport.playlist_dir] = last.pre.dirs[FirstExport.playlist_dir]

\* C5: a second run of update() on the same catalog and directories, after a
\* run that succeeded, succeeds too and leaves the music directory and the
\* playlist directory as the first run left them.
C5_SecondExportSameResult ==
    (Exported /\ last.arg.again) =>
        /\ last.res = "ok"
        /\ dirs = last.pre.dirs

\* one symlink per song of the catalog, named by the song's filename and
\* pointing to the song's file in the library
SongLinks(st, i) ==
    {Entry(SongName(st.heap[o].filename), "link", st.heap[o].filename, <<>>) :
        o \in Values(AttrIn(st, i, "songs"))}

\* the names and kinds of the entries of a directory
NamesIn(path) == {[name |-> e.name, kind |-> e.kind] : e \in path.entries}

\* C19: after a successful FlatDirExport.update() the music directory holds
\* exactly one symlink per song, named by the song's filename and pointing
\* to its file in the library, and the playlist directory exactly one file
\* `<name>.m3u` per playlist, for every music_dir and playlist_dir that the
\* export accepts.
C19_ExportLayout ==
    (Exported /\ last.res = "ok") =>
        /\ dirs[FirstExport.music_dir].st = "dir"
        /\ dirs[FirstExport.music_dir].entries = SongLinks(last.pre, last.arg.i)
        /\ dirs[FirstExport.playlist_dir].st = "dir"
        /\ NamesIn(dirs[FirstExport.playlist_dir])
              = {[name |-> M3uName(name), kind |-> "file"] :
                    name \in Keys(AttrIn(last.pre, last.arg.i, "playlists"))}

\* the states of a path that ensure_dir refuses
Refused == {"noparent", "file", "dangling"}

\* C20: the directory-clearing helper changes nothing and fails fatally
\* when the parent of the target does not exist or when the target exists
\* and is not a directory; it creates the target only when the parent
\* exists and the target is missing.
C20_EnsureDirRefuses ==
    Exported =>
        /\ \A d \in DirNames :
              /\ last.pre.dirs[d].st \in Refused => dirs[d] = last.pre.dirs[d]
              /\ dirs[d].st # last.pre.dirs[d].st =>
                    last.pre.dirs[d].st = "missing" /\ dirs[d].st = "dir"
        /\ last.pre.dirs[FirstExport.music_dir].st \in Refused =>
              last.res # "ok" /\ dirs = last.pre.dirs
        /\ last.pre.dirs[FirstExport.playlist_dir].st \in Refused => last.res # "ok"
        /\ last.pre.dirs[FirstExport.music_dir].st \in {"noparent", "file"} =>
              last.res = "SystemExit"

\* the music directory was missing and has been made; the parent of the
\* playlist directory is missing, and the export has stopped there
C20_Witness ==
    /\ Exported
    /\ last.pre.dirs[FirstExport.music_dir].st = "missing"
    /\ dirs[FirstExport.music_dir].st = "dir"
    /\ last.pre.dirs[FirstExport.playlist_dir].st = "noparent"
    /\ dirs[FirstExport.playlist_dir] = last.pre.dirs[FirstExport.playlist_dir]
    /\ last.res = "SystemExit"

(***************************************************************************)
(* Properties of playlists (specification SpecPlaylist).                   *)
(***************************************************************************)
\* the playlist and the songs of the last call
ThePlaylist == Get(Attr(last.arg.i, "playlists"), last.arg.name)
TheSongs == Attr(last.arg.i, "songs")

\* the place of a Song object in the catalog's song map
CatalogIndex(o) == CHOOSE n \in 1..Len(TheSongs) : TheSongs[n].v = o

\* the value a song is ordered by on a field: its attribute, or ""
SortKey(o, field) ==
    LET v == get_attr(heap[o], IF Head(field) = "!" THEN Tail(field) ELSE field).val
    IN  IF Truthy(v) THEN v.s ELSE <<>>

\* a comes before b: by the first field they differ on, in its direction,
\* else by their places in the catalog
RECURSIVE OrderedBefore(_, _, _)
OrderedBefore(a, b, fields) ==
    IF fields = <<>> THEN CatalogIndex(a) < CatalogIndex(b)
    ELSE IF SortKey(a, Head(fields)) = SortKey(b, Head(fields))
    THEN OrderedBefore(a, b, Tail(fields))
    ELSE IF Head(Head(fields)) = "!"
    THEN StrLess(SortKey(b, Head(fields)), SortKey(a, Head(fields)))
    ELSE StrLess(SortKey(a, Head(fields)), SortKey(b, Head(fields)))

\* the songs get_songs returned are the matching songs, once each, in order
MatchingInOrder(r) ==
    /\ \A m, n \in 1..Len(r) : m < n => r[m] # r[n]
    /\ {r[n] : n \in 1..Len(r)}
          = {o \in Values(TheSongs) : matches(ThePlaylist, heap[o]) = Return(TRUE)}
    /\ \A m, n \in 1..Len(r) :
          m < n => OrderedBefore(r[m], r[n], PAttr(ThePlaylist, "sort"))

\* C11: AutoPlaylist.get_songs returns the catalog songs that match, each
\* once, ordered by the sort fields from the most significant one, ascending
\* or (with `!`) descending, a missing attribute counting as "", and songs
\* equal on every field in catalog order.
C11_GetSongsMatchingInOrder ==
    (last.op = "get_songs" /\ ThePlaylist.type = "auto") =>
        /\ last.res.res = "ok"
        /\ MatchingInOrder(last.res.val)

\* the song of the last matches() call, and the playlist's rule when it is
\* one leaf
TheSong == heap[Get(TheSongs, last.arg.key)]
TheLeaf == PAttr(ThePlaylist, "conditions")[1]
OneLeaf ==
    /\ Len(PAttr(ThePlaylist, "conditions")) = 1
    /\ ~IsCombinator(TheLeaf)
MatchedLeaf == last.op = "matches" /\ OneLeaf

\* the song has no value for the attribute of the rule
Lacks == get_attr(TheSong, TheLeaf.attr) = Return(None)

\* C12: for each of the nine leaf operators and every rule value of its
\* arity, matches() on a song that has no value for the attribute returns
\* true or false and raises nothing.
C12_MissingValueNeverRaises ==
    (MatchedLeaf /\ Lacks) =>
        /\ last.res.res = "ok"
        /\ last.res.val \in BOOLEAN

\* the operators that hold of an empty string and a non-empty rule value
NegativeOperators ==
    {CONDITION_IS_NOT, CONDITION_DOES_NOT_CONTAIN, CONDITION_NOT_IN,
     CONDITION_CONTAINS_NONE}

\* C13: a song without a value for the attribute is compared as the empty
\* string: with a non-empty rule value, `is`, `contains`, `in`, `contains
\* all` and `contains any` do not match it, and `is not`, `does not contain`,
\* `not in` and `contains none` match it.
C13_MissingValueIsEmptyString ==
    (MatchedLeaf /\ Lacks /\ Truthy(TheLeaf.value)) =>
        /\ last.res.res = "ok"
        /\ last.res.val = (TheLeaf.type \in NegativeOperators)

\* a value lower-cased and trimmed: a string, or a list of strings
Normal(v) ==
    IF v.t = "list"
    THEN List([n \in 1..Len(v.l) |-> strip(lower(v.l[n]))])
    ELSE Str(strip(lower(v.s)))

\* the song and the rule of the last call with both sides lower-cased and
\* trimmed
NormalSong ==
    [TheSong EXCEPT !.metadata =
        Put(@, TheLeaf.attr, Normal(Get(@, TheLeaf.attr)))]
NormalLeaf == [TheLeaf EXCEPT !.value = Normal(@)]

\* C14: a leaf compares without regard to case and to surrounding white
\* space on both sides, for scalar and list rule values alike: the outcome
\* is the outcome for the lower-cased, trimmed song value and rule value.
C14_ComparisonIgnoresCaseAndSpace ==
    (MatchedLeaf /\ ~Lacks) =>
        /\ last.res.res = "ok"
        /\ last.res.val = matches_condition(NormalSong, NormalLeaf).val

\* the three lines of one song in an .m3u file
SongLines(song) ==
    LET meta == song.metadata
        seconds == IF Has(meta, s_length) THEN Get(meta, s_length).n ELSE 0
        title == IF Has(meta, s_title) /\ Has(meta, s_artist)
                 THEN Get(meta, s_title).s \o <<" ", "-", " ">> \o Get(meta, s_artist).s
                 ELSE song.filename
    IN  <<Line("", 0, <<>>),
          Line("#EXTINF", seconds, Filter(title, TitleChars)),
          Line("get_song_path", 0, song.filename)>>

\* the songs of the playlist of the last call, as get_songs gives them
FoundSongs == get_songs(ThePlaylist, TheSongs, heap)

C16_GenFilenameIdempotent ==
    last.op = "gen_filename" =>
        /\ last.arg.before # <<>> => last.res = last.arg.before[1]
        /\ last.arg.again => last.res = last.arg.path

(***************************************************************************)
(* Properties of Library instances (specification SpecCatalog).            *)
(***************************************************************************)
\* the last call put a song, a playlist or an export into Library i
InsertedInto(i) ==
    /\ last.op \in {"add_song", "set_defaults", "playlist_new"}
    /\ last.arg.i = i

\* C17: two Library instances share no container: after add_song,
\* set_defaults or the insertion of a playlist on one instance, loaded or
\* newly made, the songs, exports and playlists of every other instance are
\* what they were.
C17_InstancesShareNoContainer ==
    \A i, j \in Instances :
        (i # j /\ InsertedInto(i)) =>
            CatalogView(Now, j) = CatalogView(last.pre, j)

\* the top-level fields of a catalog file that load_config gives a default
OptionalFields == {"exports", "playlists", "songs", "extensions"}

\* the last load, by Library i, read a whole catalog file that has no field
\* a and whose simple playlists name songs of the file only
LoadedWithout(i, a) ==
    /\ Loaded(i)
    /\ last.pre.configFile # <<>> /\ IsWhole(last.pre.configFile)
    /\ a \notin DOMAIN LoadedDoc
    /\ SimpleNames(LoadedDoc) \subseteq FileSongKeys(LoadedDoc)

\* C18: after load() of a catalog file without one of the fields `exports`,
\* `playlists`, `songs`, `extensions`, the load has succeeded and that
\* collection of the Library is empty, whatever the state of this or of
\* another Library was before.
C18_MissingFieldLoadsEmpty ==
    \A i \in Instances, a \in OptionalFields :
        LoadedWithout(i, a) =>
            /\ last.res = "ok"
            /\ AttrIn(Now, i, a) = <<>>

(***************************************************************************)
(* Properties of phase 2 of the export (specification SpecExport).         *)
(***************************************************************************)
\* the last export got through phase 1 and came to clear a playlist
\* directory that is another directory than the music directory
ReachedPhase2 ==
    /\ Exported
    /\ FirstExport.music_dir # FirstExport.playlist_dir
    /\ last.pre.dirs[FirstExport.music_dir].st \in {"missing", "dir"}
    /\ \A e \in last.pre.dirs[FirstExport.music_dir].entries : e.kind = "link"
    /\ last.pre.dirs[FirstExport.playlist_dir].st = "dir"

\* C21: update_playlists removes every entry the playlist directory had,
\* whatever its type (regular file, symlink or subdirectory), and then
\* succeeds, leaving only the .m3u files it has written.
C21_Phase2ClearsEveryEntry ==
    ReachedPhase2 =>
        /\ last.res = "ok"
        /\ NamesIn(dirs[FirstExport.playlist_dir])
              = {[name |-> M3uName(name), kind |-> "file"] :
                    name \in Keys(AttrIn(last.pre, last.arg.i, "playlists"))}

(***************************************************************************)
(* Properties of Song.get_attr (specification SpecPlaylist).               *)
(***************************************************************************)
\* C22: Song.get_attr(name) never raises: for `date_added` it returns the
\* song's date_added, for any other name metadata[name] when the key is set
\* and None when it is not.
C22_GetAttrTotal ==
    last.op = "get_attr" =>
        /\ last.res.res = "ok"
        /\ last.res.val =
              (IF last.arg.attr = s_date_added THEN TheSong.date_added
               ELSE IF Has(TheSong.metadata, last.arg.attr)
               THEN Get(TheSong.metadata, last.arg.attr)
               ELSE None)

(***************************************************************************)
(* Properties of the leaf operators (specification SpecPlaylist).          *)
(***************************************************************************)
\* the operator of the opposite sense; `contains all` has none
Counterpart(check) ==
    CASE check = CONDITION_IS -> CONDITION_IS_NOT
      [] check = CONDITION_IS_NOT -> CONDITION_IS
      [] check = CONDITION_CONTAINS -> CONDITION_DOES_NOT_CONTAIN
      [] check = CONDITION_DOES_NOT_CONTAIN -> CONDITION_CONTAINS
      [] check = CONDITION_IN -> CONDITION_NOT_IN
      [] check = CONDITION_NOT_IN -> CONDITION_IN
      [] check = CONDITION_CONTAINS_ANY -> CONDITION_CONTAINS_NONE
      [] check = CONDITION_CONTAINS_NONE -> CONDITION_CONTAINS_ANY

\* the outcome of the rule of the last call with the opposite operator
Opposite == matches_condition(TheSong, [TheLeaf EXCEPT !.type = Counterpart(@)])

\* C23: a negative leaf operator is the complement of its positive one: for
\* every song, attribute and rule value exactly one of `is` / `is not`
\* matches, and likewise for `contains` / `does not contain`, `in` /
\* `not in` and `contains any` / `contains none`.
C23_NegativeIsComplement ==
    (MatchedLeaf /\ TheLeaf.type # CONDITION_CONTAINS_ALL) =>
        /\ last.res.res = "ok"
        /\ Opposite.res = "ok"
        /\ last.res.val # Opposite.val

(***************************************************************************)
(* Properties of remove and save (specification SpecCatalog).              *)
(***************************************************************************)
\* the last call is a save() by a Library whose last load had come to its end
SavedLoaded ==
    /\ last.op = "save"
    /\ {"songs", "playlists"} \subseteq last.pre.lib[last.arg.i].own

====
